---- MODULE Spec2Model ----
(***************************************************************************)
(* Performance Guard, src-tauri/src/main.rs: the global input activity     *)
(* tracker (hook callbacks and calculate_global_activity), the foreground  *)
(* queries, the collection commands that share the System mutex, the       *)
(* process list, and the JSON store (save_app_data / load_app_data).       *)
(***************************************************************************)
EXTENDS Integers, Sequences, FiniteSets, TLC

VARIABLES
    KEYBOARD_HOOK_CLICKS,   \* AtomicU32, main.rs:186
    MOUSE_DISTANCE,         \* AtomicU32, main.rs:188
    PREV_CURSOR_X,          \* AtomicI32, main.rs:190
    PREV_CURSOR_Y,          \* AtomicI32, main.rs:191
    hook,                   \* the capture thread: position inside mouse_hook_proc and its locals
    poll,                   \* each polling thread: position inside calculate_global_activity
    activity,               \* each polling thread: the GlobalActivityResult it last returned
    fgResult,               \* the value last returned by check_foreground / get_user_activity
    hist,                   \* history of the run: totals added and drained, counts of calls
    system,                 \* AppState.system, the Mutex<System>: the thread holding it
    thr,                    \* each command thread: the command it runs and its position in it
    disk,                   \* the file system under state.data_path: directories, data file, access
    saved,                  \* history of the store: the arguments of the successful saves
    saveResult,             \* the Result the save_app_data call just made returned
    loadResult,             \* the Result the load_app_data call just made returned
    table,                  \* system.processes(): the table as of the last refresh
    processes,              \* the Vec<ProcessInfo> get_processes last returned
    gpu                     \* the GPU driver's answers and the HashMap last made of them

activityVars == <<KEYBOARD_HOOK_CLICKS, MOUSE_DISTANCE, PREV_CURSOR_X, PREV_CURSOR_Y,
                  hook, poll, activity, fgResult, hist>>

lockVars == <<system, thr>>

storeVars == <<disk, saved, saveResult, loadResult>>

procVars == <<table, processes>>

gpuVars == <<gpu>>

vars == <<activityVars, lockVars, storeVars, procVars, gpuVars>>

\* what the steps of one component leave alone
notActivityVars == <<lockVars, storeVars, procVars, gpuVars>>
notLockVars == <<activityVars, storeVars, procVars, gpuVars>>
notStoreVars == <<activityVars, lockVars, procVars, gpuVars>>
notProcVars == <<activityVars, lockVars, storeVars, gpuVars>>
notGpuVars == <<activityVars, lockVars, storeVars, procVars>>

(***************************************************************************)
(* Bounds of the model.                                                    *)
(***************************************************************************)
MaxEvents == 4      \* key-down and mouse-move events the hooks handle in a run
MaxDrains == 2      \* calls of calculate_global_activity in a run
MaxQueries == 1     \* calls of check_foreground / get_user_activity in a run
MaxCalls == 2       \* collection commands each thread invokes in a run
PathDepth == 2      \* directories from an existing ancestor down to state.data_path
MaxProcs == 3       \* process ids the operating system hands out
MaxGpuProcs == 2    \* entries of a process list the GPU driver reports

(***************************************************************************)
(* u32 values.  TLC's integers are 32-bit signed, so a u32 is kept as two  *)
(* 16-bit limbs <<hi, lo>> and AtomicU32::fetch_add wraps at 2^32 as the   *)
(* hardware does. The history totals are never wrapped: their high limb is *)
(* unbounded.                                                              *)
(***************************************************************************)
Limb == 256 * 256

U32(n) == <<n \div Limb, n % Limb>>

U32Zero == <<0, 0>>

WideAdd(a, b) == <<a[1] + b[1] + ((a[2] + b[2]) \div Limb), (a[2] + b[2]) % Limb>>

WrappingAdd(a, b) == <<WideAdd(a, b)[1] % Limb, WideAdd(a, b)[2]>>

Wraps(a, b) == WideAdd(a, b)[1] >= Limb

Min2(a, b) == IF a <= b THEN a ELSE b

Abs(n) == IF n < 0 THEN 0 - n ELSE n

\* min(u, cap) of a u32 u and a small natural cap, as a natural
CapU32(u, cap) == IF u[1] > 0 \/ u[2] >= cap THEN cap ELSE u[2]

(***************************************************************************)
(* f32 arithmetic of mouse_hook_proc, main.rs:241-243.                     *)
(* `as f32` of an i32 rounds to 24 significant bits, ties to even.         *)
(***************************************************************************)
Pow2(k) == 2 ^ k

F32Ulp(n) ==
    Pow2(CHOOSE k \in 0..7 : (k = 0 \/ n >= Pow2(23 + k)) /\ (k = 7 \/ n < Pow2(24 + k)))

F32Round(n) ==
    LET q == F32Ulp(n)
        down == n - (n % q)
    IN  IF 2 * (n % q) < q THEN down
        ELSE IF 2 * (n % q) > q THEN down + q
        ELSE IF (down \div q) % 2 = 0 THEN down ELSE down + q

ISqrt(n, hi) == CHOOSE r \in 0..hi : r * r <= n /\ (r + 1) * (r + 1) > n

Log2(n) == CHOOSE e \in 0..30 : Pow2(e) <= n /\ n < Pow2(e + 1)

(***************************************************************************)
(* f32 sqrt of the f32 integer s, truncated by `as u32`.  With r the       *)
(* integer root and u the f32 spacing at r, the correctly rounded root is  *)
(* r + 1 exactly when sqrt(s) > r + 1 - u/2, which for the integer         *)
(* k = (r + 1)^2 - s is k / u <= r; below 2^12 the spacing makes that      *)
(* impossible.                                                             *)
(***************************************************************************)
SqrtAsU32(s, hi) ==
    LET r == ISqrt(s, hi)
        k == (r + 1) * (r + 1) - s
    IN  IF r >= Pow2(12) /\ k * Pow2(23 - Log2(r)) <= r THEN r + 1 ELSE r

(***************************************************************************)
(* (dx * dx + dy * dy).sqrt() as u32, for dx = x - prev_x, dy = y - prev_y.*)
(* The cases cover the cursor positions of the model:                      *)
(*  - one component is zero: sqrt(fl(a*a)) = a in binary floating point;   *)
(*  - both below 2^14: each square and the sum are rounded to f32, then    *)
(*    the root;                                                            *)
(*  - one at least 2^24 and the other below 2^12: the smaller square is    *)
(*    less than half an ulp of the larger and is absorbed by the addition. *)
(***************************************************************************)
Dist(dx, dy) ==
    LET fx == F32Round(Abs(dx))
        fy == F32Round(Abs(dy))
    IN  CASE fy = 0 -> fx
          [] fx = 0 -> fy
          [] fx > 0 /\ fy > 0 /\ fx < Pow2(14) /\ fy < Pow2(14) ->
                SqrtAsU32(F32Round(F32Round(fx * fx) + F32Round(fy * fy)), fx + fy)
          [] fx >= Pow2(24) /\ fy > 0 /\ fy < Pow2(12) -> fx
          [] fy >= Pow2(24) /\ fx > 0 /\ fx < Pow2(12) -> fy

(***************************************************************************)
(* Inputs of the hook callbacks.                                           *)
(***************************************************************************)
WM_KEYDOWN == 256       \* 0x0100
WM_SYSKEYDOWN == 260    \* 0x0104
WM_MOUSEMOVE == 512     \* 0x0200

HookCodes == {-1, 0}
KeyMessages == {WM_KEYDOWN, WM_KEYDOWN + 1, WM_SYSKEYDOWN}
MouseMessages == {WM_MOUSEMOVE, WM_MOUSEMOVE + 1}

Far == 3 * Pow2(28)
Points == {<<0, 0>>, <<1, 1>>, <<0 - Far, 1>>, <<Far, 1>>}
\* positions on a desktop of several monitors; (0,0) is the top-left corner
\* of the primary monitor
ScreenPoints == {<<0, 0>>, <<3, 4>>, <<6, 8>>, <<103, 5004>>}

Pollers == {"p1", "p2"}

\* what GetForegroundWindow / GetWindowThreadProcessId answer: <<hwnd is null, pid>>
ForegroundAnswers == {<<TRUE, 0>>, <<FALSE, 0>>, <<FALSE, 1>>, <<FALSE, 2>>}
PidLists == {<<>>, <<1>>, <<2, 1>>}
NoPid == [some |-> FALSE, pid |-> 0]
SomePid(pid) == [some |-> TRUE, pid |-> pid]

Contains(s, e) == \E i \in 1..Len(s) : s[i] = e

(***************************************************************************)
(* get_foreground_process_id, main.rs:162-175. hwnd_null and window_pid    *)
(* are what GetForegroundWindow and GetWindowThreadProcessId answer.       *)
(***************************************************************************)
get_foreground_process_id(hwnd_null, window_pid) ==
    IF hwnd_null THEN NoPid
    ELSE IF window_pid > 0 THEN SomePid(window_pid) ELSE NoPid

(***************************************************************************)
(* The score of calculate_global_activity, main.rs:314-318, in units of    *)
(* 1/48 percent: clicks / 12 * 100 = 400 * clicks / 48 and                 *)
(* dist / 800 * 50 = 3 * dist / 48, so every score is a whole number of    *)
(* units. min(c / 12 * 100, 100) is computed as min(c, 12) / 12 * 100,     *)
(* which keeps the arithmetic inside TLC's integers.                       *)
(***************************************************************************)
click_score(clicks) == Min2(400 * CapU32(clicks, 12), 4800)

mouse_score_uncapped(total_mouse_dist) == Min2(3 * CapU32(total_mouse_dist, 1600), 4800)

mouse_score(total_mouse_dist) == Min2(3 * CapU32(total_mouse_dist, 800), 2400)

activity_percent(clicks, total_mouse_dist) ==
    Min2(click_score(clicks) + mouse_score(total_mouse_dist), 4800)

\* RawActivityData, with two history fields: after_quiet (the call began after a
\* drain had returned, with no event handled from that drain's start to this
\* call's return) and queries_before (foreground queries made before the return)
NoActivity == [returned |-> FALSE, activity_percent |-> 0,
               keyboard_clicks |-> U32Zero, mouse_pixels |-> U32Zero,
               after_quiet |-> FALSE, queries_before |-> 0]

NoFgResult == [activity_percent |-> 0, is_foreground |-> FALSE]

(***************************************************************************)
(* History. quiet: a drain has returned and no step of the handling of a   *)
(* key-down or mouse-move event was taken since that drain began.          *)
(* drainedKeys and drainedDist sum what the drains have returned.          *)
(***************************************************************************)
Handled(h) == [h EXCEPT !.events = @ + 1, !.quiet = FALSE]

Disturb(pl) == [p \in Pollers |-> [pl[p] EXCEPT !.armed = FALSE, !.clean = FALSE]]

InitActivity ==
    /\ KEYBOARD_HOOK_CLICKS = U32Zero
    /\ MOUSE_DISTANCE = U32Zero
    /\ PREV_CURSOR_X = 0
    /\ PREV_CURSOR_Y = 0
    /\ hook = [pc |-> "idle", x |-> 0, y |-> 0, prev_x |-> 0, prev_y |-> 0, dist |-> 0]
    /\ poll = [p \in Pollers |-> [pc |-> "idle", clicks |-> U32Zero,
                                  armed |-> FALSE, clean |-> FALSE]]
    /\ activity = [p \in Pollers |-> NoActivity]
    /\ fgResult = NoFgResult
    /\ hist = [addedKeys |-> U32Zero, addedDist |-> U32Zero,
               drainedKeys |-> U32Zero, drainedDist |-> U32Zero,
               wrapped |-> FALSE, events |-> 0, drains |-> 0, queries |-> 0,
               quiet |-> FALSE, position |-> <<PREV_CURSOR_X, PREV_CURSOR_Y>>,
               from |-> <<PREV_CURSOR_X, PREV_CURSOR_Y>>, sinceMove |-> "none",
               spans |-> FALSE]

(***************************************************************************)
(* keyboard_hook_proc, main.rs:212-224.                                    *)
(***************************************************************************)
keyboard_hook_proc(code, msg) ==
    /\ UNCHANGED notActivityVars
    /\ hook.pc = "idle"
    /\ IF code >= 0 /\ (msg = WM_KEYDOWN \/ msg = WM_SYSKEYDOWN)
       THEN /\ hist.events < MaxEvents
            /\ KEYBOARD_HOOK_CLICKS' = WrappingAdd(KEYBOARD_HOOK_CLICKS, U32(1))
            /\ hist' = [Handled(hist) EXCEPT
                          !.addedKeys = WideAdd(@, U32(1)),
                          !.wrapped = @ \/ Wraps(KEYBOARD_HOOK_CLICKS, U32(1))]
            /\ poll' = Disturb(poll)
       ELSE UNCHANGED <<KEYBOARD_HOOK_CLICKS, hist, poll>>
    /\ UNCHANGED <<MOUSE_DISTANCE, PREV_CURSOR_X, PREV_CURSOR_Y, hook, activity, fgResult>>

(***************************************************************************)
(* mouse_hook_proc, main.rs:226-250, one step per atomic access:           *)
(* PREV_CURSOR_X.swap(x), PREV_CURSOR_Y.swap(y), MOUSE_DISTANCE.fetch_add. *)
(***************************************************************************)
mouse_hook_proc_swap_x(code, msg, pt) ==
    /\ UNCHANGED notActivityVars
    /\ hook.pc = "idle"
    /\ IF code >= 0 /\ msg = WM_MOUSEMOVE
       THEN /\ hist.events < MaxEvents
            /\ PREV_CURSOR_X' = pt[1]
            /\ hook' = [pc |-> "swap_y", x |-> pt[1], y |-> pt[2],
                        prev_x |-> PREV_CURSOR_X, prev_y |-> 0, dist |-> 0]
            /\ hist' = [Handled(hist) EXCEPT !.from = hist.position,
                                             !.spans = (hist.sinceMove = "drained")]
            /\ poll' = Disturb(poll)
       ELSE UNCHANGED <<PREV_CURSOR_X, hook, hist, poll>>
    /\ UNCHANGED <<KEYBOARD_HOOK_CLICKS, MOUSE_DISTANCE, PREV_CURSOR_Y, activity, fgResult>>

\* the same without the test for a previous position
mouse_hook_proc_swap_y_unguarded ==
    /\ UNCHANGED notActivityVars
    /\ hook.pc = "swap_y"
    /\ PREV_CURSOR_Y' = hook.y
    /\ LET prev_y == PREV_CURSOR_Y
           dist == IF TRUE
                   THEN Dist(hook.x - hook.prev_x, hook.y - prev_y)
                   ELSE 0
       IN  hook' = [hook EXCEPT !.pc = IF dist > 0 THEN "add" ELSE "idle",
                                !.prev_y = prev_y, !.dist = dist]
    /\ hist' = [hist EXCEPT !.quiet = FALSE, !.position = <<hook.x, hook.y>>,
                            !.sinceMove = "recorded"]
    /\ poll' = Disturb(poll)
    /\ UNCHANGED <<KEYBOARD_HOOK_CLICKS, MOUSE_DISTANCE, PREV_CURSOR_X, activity, fgResult>>

mouse_hook_proc_swap_y ==
    /\ UNCHANGED notActivityVars
    /\ hook.pc = "swap_y"
    /\ PREV_CURSOR_Y' = hook.y
    /\ LET prev_y == PREV_CURSOR_Y
           dist == IF hook.prev_x # 0 \/ prev_y # 0
                   THEN Dist(hook.x - hook.prev_x, hook.y - prev_y)
                   ELSE 0
       IN  hook' = [hook EXCEPT !.pc = IF dist > 0 THEN "add" ELSE "idle",
                                !.prev_y = prev_y, !.dist = dist]
    /\ hist' = [hist EXCEPT !.quiet = FALSE, !.position = <<hook.x, hook.y>>,
                            !.sinceMove = "recorded"]
    /\ poll' = Disturb(poll)
    /\ UNCHANGED <<KEYBOARD_HOOK_CLICKS, MOUSE_DISTANCE, PREV_CURSOR_X, activity, fgResult>>

mouse_hook_proc_add ==
    /\ UNCHANGED notActivityVars
    /\ hook.pc = "add"
    /\ MOUSE_DISTANCE' = WrappingAdd(MOUSE_DISTANCE, U32(hook.dist))
    /\ hook' = [hook EXCEPT !.pc = "idle"]
    /\ hist' = [hist EXCEPT !.addedDist = WideAdd(@, U32(hook.dist)),
                            !.wrapped = @ \/ Wraps(MOUSE_DISTANCE, U32(hook.dist)),
                            !.quiet = FALSE]
    /\ poll' = Disturb(poll)
    /\ UNCHANGED <<KEYBOARD_HOOK_CLICKS, PREV_CURSOR_X, PREV_CURSOR_Y, activity, fgResult>>

(***************************************************************************)
(* get_global_activity, main.rs:353-363, calling calculate_global_activity,*)
(* main.rs:306-325: KEYBOARD_HOOK_CLICKS.swap(0), then                     *)
(* MOUSE_DISTANCE.swap(0), the score and get_foreground_process_id.        *)
(***************************************************************************)
calculate_global_activity_clicks_load(p) ==
    /\ UNCHANGED notActivityVars
    /\ poll[p].pc = "idle"
    /\ hist.drains < MaxDrains
    /\ poll' = [poll EXCEPT ![p] = [pc |-> "clicks_swapped", clicks |-> KEYBOARD_HOOK_CLICKS,
                                    armed |-> hist.quiet, clean |-> TRUE]]
    /\ hist' = [hist EXCEPT !.drains = @ + 1]
    /\ UNCHANGED <<KEYBOARD_HOOK_CLICKS, MOUSE_DISTANCE, PREV_CURSOR_X, PREV_CURSOR_Y, hook,
                   activity, fgResult>>

calculate_global_activity_clicks(p) ==
    /\ UNCHANGED notActivityVars
    /\ poll[p].pc = "idle"
    /\ hist.drains < MaxDrains
    /\ KEYBOARD_HOOK_CLICKS' = U32Zero
    /\ poll' = [poll EXCEPT ![p] = [pc |-> "clicks_swapped", clicks |-> KEYBOARD_HOOK_CLICKS,
                                    armed |-> hist.quiet, clean |-> TRUE]]
    /\ hist' = [hist EXCEPT !.drains = @ + 1]
    /\ UNCHANGED <<MOUSE_DISTANCE, PREV_CURSOR_X, PREV_CURSOR_Y, hook, activity, fgResult>>

calculate_global_activity_distance_load(p) ==
    /\ UNCHANGED notActivityVars
    /\ poll[p].pc = "clicks_swapped"
    /\ activity' = [activity EXCEPT ![p] =
            [returned |-> TRUE,
             activity_percent |-> activity_percent(poll[p].clicks, MOUSE_DISTANCE),
             keyboard_clicks |-> poll[p].clicks,
             mouse_pixels |-> MOUSE_DISTANCE,
             after_quiet |-> poll[p].armed,
             queries_before |-> hist.queries]]
    /\ poll' = [poll EXCEPT ![p].pc = "idle"]
    /\ hist' = [hist EXCEPT !.drainedKeys = WideAdd(@, poll[p].clicks),
                            !.drainedDist = WideAdd(@, MOUSE_DISTANCE),
                            !.quiet = @ \/ poll[p].clean,
                            !.sinceMove = IF @ = "recorded" THEN "drained" ELSE @,
                            !.spans = FALSE]
    /\ UNCHANGED <<KEYBOARD_HOOK_CLICKS, MOUSE_DISTANCE, PREV_CURSOR_X, PREV_CURSOR_Y, hook,
                   fgResult>>

calculate_global_activity_distance(p) ==
    /\ UNCHANGED notActivityVars
    /\ poll[p].pc = "clicks_swapped"
    /\ MOUSE_DISTANCE' = U32Zero
    /\ activity' = [activity EXCEPT ![p] =
            [returned |-> TRUE,
             activity_percent |-> activity_percent(poll[p].clicks, MOUSE_DISTANCE),
             keyboard_clicks |-> poll[p].clicks,
             mouse_pixels |-> MOUSE_DISTANCE,
             after_quiet |-> poll[p].armed,
             queries_before |-> hist.queries]]
    /\ poll' = [poll EXCEPT ![p].pc = "idle"]
    /\ hist' = [hist EXCEPT !.drainedKeys = WideAdd(@, poll[p].clicks),
                            !.drainedDist = WideAdd(@, MOUSE_DISTANCE),
                            !.quiet = @ \/ poll[p].clean,
                            !.sinceMove = IF @ = "recorded" THEN "drained" ELSE @,
                            !.spans = FALSE]
    /\ UNCHANGED <<KEYBOARD_HOOK_CLICKS, PREV_CURSOR_X, PREV_CURSOR_Y, hook, fgResult>>

(***************************************************************************)
(* check_foreground, main.rs:368-373, and get_user_activity,               *)
(* main.rs:378-387.                                                        *)
(***************************************************************************)
is_foreground(foreground_pid, pids) == foreground_pid.some /\ Contains(pids, foreground_pid.pid)

check_foreground(pids, fg) ==
    /\ UNCHANGED notActivityVars
    /\ hist.queries < MaxQueries
    /\ fgResult' = [activity_percent |-> 0,
                    is_foreground |->
                        is_foreground(get_foreground_process_id(fg[1], fg[2]), pids)]
    /\ hist' = [hist EXCEPT !.queries = @ + 1]
    /\ UNCHANGED <<KEYBOARD_HOOK_CLICKS, MOUSE_DISTANCE, PREV_CURSOR_X, PREV_CURSOR_Y, hook,
                   poll, activity>>

get_user_activity_draining(pids, fg) ==
    /\ UNCHANGED notActivityVars
    /\ hist.queries < MaxQueries
    /\ KEYBOARD_HOOK_CLICKS' = U32Zero
    /\ MOUSE_DISTANCE' = U32Zero
    /\ fgResult' = [activity_percent |-> activity_percent(KEYBOARD_HOOK_CLICKS, MOUSE_DISTANCE),
                    is_foreground |->
                        is_foreground(get_foreground_process_id(fg[1], fg[2]), pids)]
    /\ hist' = [hist EXCEPT !.queries = @ + 1]
    /\ UNCHANGED <<PREV_CURSOR_X, PREV_CURSOR_Y, hook, poll, activity>>

get_user_activity(pids, fg) ==
    /\ UNCHANGED notActivityVars
    /\ hist.queries < MaxQueries
    /\ fgResult' = [activity_percent |-> 0,
                    is_foreground |->
                        is_foreground(get_foreground_process_id(fg[1], fg[2]), pids)]
    /\ hist' = [hist EXCEPT !.queries = @ + 1]
    /\ UNCHANGED <<KEYBOARD_HOOK_CLICKS, MOUSE_DISTANCE, PREV_CURSOR_X, PREV_CURSOR_Y, hook,
                   poll, activity>>

(***************************************************************************)
(* The collection commands and state.system, main.rs:389-512. Each command *)
(* begins with state.system.lock().unwrap(), refreshes the System, builds  *)
(* its answer and drops the guard when it returns. Mutex::lock blocks      *)
(* while another thread holds the mutex; a thread that locks a std Mutex   *)
(* it already holds never gets it.                                         *)
(***************************************************************************)
Threads == {"t1", "t2", "t3"}
Commands == {"get_processes", "get_system_stats", "get_process_by_pid"}
Free == "free"

InitLock ==
    /\ system = [holder |-> Free, refreshes |-> 0]
    /\ thr = [t \in Threads |-> [pc |-> "idle", cmd |-> "none", calls |-> 0, locks |-> 0]]

\* the external caller invokes a command on thread t
invoke(t, cmd) ==
    /\ UNCHANGED notLockVars
    /\ thr[t].pc = "idle"
    /\ thr[t].calls < MaxCalls
    /\ thr' = [thr EXCEPT ![t] = [pc |-> "lock", cmd |-> cmd, calls |-> @.calls + 1,
                                  locks |-> 0]]
    /\ UNCHANGED system

\* state.system.lock().unwrap()
lock_system(t, cmd) ==
    /\ UNCHANGED notLockVars
    /\ thr[t].pc = "lock"
    /\ thr[t].cmd = cmd
    /\ system.holder = Free
    /\ system' = [system EXCEPT !.holder = t]
    /\ thr' = [thr EXCEPT ![t].pc = "refresh", ![t].locks = @ + 1]

\* system.refresh_processes(..) / system.refresh_all(), under the guard
refresh_system(t, cmd) ==
    /\ UNCHANGED notLockVars
    /\ thr[t].pc = "refresh"
    /\ thr[t].cmd = cmd
    /\ system' = [system EXCEPT !.refreshes = @ + 1]
    /\ thr' = [thr EXCEPT ![t].pc = "collect"]

\* a second state.system.lock() by the thread that holds the guard
relock_system(t, cmd) ==
    /\ UNCHANGED notLockVars
    /\ thr[t].pc = "refresh"
    /\ thr[t].cmd = cmd
    /\ system.holder = Free
    /\ system' = [system EXCEPT !.holder = t]
    /\ thr' = [thr EXCEPT ![t].pc = "collect", ![t].locks = @ + 1]

\* the answer is built from the System and the guard is dropped on return
return_unlock(t, cmd) ==
    /\ UNCHANGED notLockVars
    /\ thr[t].pc = "collect"
    /\ thr[t].cmd = cmd
    /\ system' = [system EXCEPT !.holder = Free]
    /\ thr' = [thr EXCEPT ![t].pc = "idle"]

get_processes_lock(t) == lock_system(t, "get_processes")
get_processes_refresh(t) == refresh_system(t, "get_processes")
get_processes_return(t) == return_unlock(t, "get_processes")

get_system_stats_lock(t) == lock_system(t, "get_system_stats")
get_system_stats_refresh(t) == refresh_system(t, "get_system_stats")
get_system_stats_return(t) == return_unlock(t, "get_system_stats")

get_process_by_pid_lock(t) == lock_system(t, "get_process_by_pid")
get_process_by_pid_relock(t) == relock_system(t, "get_process_by_pid")
get_process_by_pid_refresh(t) == refresh_system(t, "get_process_by_pid")
get_process_by_pid_return(t) == return_unlock(t, "get_process_by_pid")

\* the steps of thread t inside a command
CommandStep(t) ==
    \/ get_processes_lock(t)
    \/ get_processes_refresh(t)
    \/ get_processes_return(t)
    \/ get_system_stats_lock(t)
    \/ get_system_stats_refresh(t)
    \/ get_system_stats_return(t)
    \/ get_process_by_pid_lock(t)
    \/ get_process_by_pid_refresh(t)
    \/ get_process_by_pid_return(t)

(***************************************************************************)
(* The JSON store, main.rs:514-603.                                        *)
(*                                                                         *)
(* Text. A Rust String is a sequence of Unicode scalar values, a file is   *)
(* bytes. serde_json::to_string_pretty writes a String, fs::write stores   *)
(* its UTF-8 bytes, fs::read_to_string checks the bytes to be UTF-8 and    *)
(* serde_json::from_str parses the String.                                 *)
(***************************************************************************)
Ok(v) == [ok |-> TRUE, v |-> v]
Err(e) == [ok |-> FALSE, v |-> e]

None == << >>
Some(x) == <<x>>

RECURSIVE Concat(_)
Concat(ss) == IF ss = << >> THEN << >> ELSE Head(ss) \o Concat(Tail(ss))

\* char::encode_utf8
Utf8Char(c) ==
    IF c < 128 THEN <<c>>
    ELSE IF c < 2048 THEN <<192 + (c \div 64), 128 + (c % 64)>>
    ELSE IF c < 65536 THEN <<224 + (c \div 4096), 128 + ((c \div 64) % 64), 128 + (c % 64)>>
    ELSE <<240 + (c \div 262144), 128 + ((c \div 4096) % 64), 128 + ((c \div 64) % 64),
           128 + (c % 64)>>

\* String::as_bytes
as_bytes(s) == Concat([i \in 1..Len(s) |-> Utf8Char(s[i])])

\* the length of the UTF-8 sequence a lead byte opens, 0 when it opens none
Utf8Width(b) ==
    IF b < 128 THEN 1
    ELSE IF b >= 194 /\ b < 224 THEN 2
    ELSE IF b >= 224 /\ b < 240 THEN 3
    ELSE IF b >= 240 /\ b < 245 THEN 4
    ELSE 0

Utf8Continuation(b) == b >= 128 /\ b < 192

Utf8Value(b, n) ==
    IF n = 1 THEN b[1]
    ELSE IF n = 2 THEN (b[1] - 192) * 64 + (b[2] - 128)
    ELSE IF n = 3 THEN (b[1] - 224) * 4096 + (b[2] - 128) * 64 + (b[3] - 128)
    ELSE (b[1] - 240) * 262144 + (b[2] - 128) * 4096 + (b[3] - 128) * 64 + (b[4] - 128)

\* no overlong form, no surrogate, nothing above U+10FFFF
Utf8Scalar(c, n) ==
    /\ n = 2 => c >= 128
    /\ n = 3 => c >= 2048 /\ ~(c >= 55296 /\ c < 57344)
    /\ n = 4 => c >= 65536 /\ c < 1114112

\* String::from_utf8, as fs::read_to_string applies it
RECURSIVE from_utf8(_)
from_utf8(b) ==
    IF b = << >> THEN Ok(<< >>)
    ELSE LET n == Utf8Width(b[1])
         IN  IF n = 0 \/ Len(b) < n \/ (\E i \in 2..n : ~Utf8Continuation(b[i]))
             THEN Err("io")
             ELSE LET c == Utf8Value(b, n)
                      rest == from_utf8(SubSeq(b, n + 1, Len(b)))
                  IN  IF ~Utf8Scalar(c, n) \/ ~rest.ok THEN Err("io")
                      ELSE Ok(<<c>> \o rest.v)

\* serde_json's HEX_DIGITS, lower case
Hex(d) == IF d < 10 THEN 48 + d ELSE 87 + d

\* serde_json format_escaped_str: the ESCAPE table
EscapeChar(c) ==
    IF c = 34 THEN <<92, 34>>
    ELSE IF c = 92 THEN <<92, 92>>
    ELSE IF c = 8 THEN <<92, 98>>
    ELSE IF c = 9 THEN <<92, 116>>
    ELSE IF c = 10 THEN <<92, 110>>
    ELSE IF c = 12 THEN <<92, 102>>
    ELSE IF c = 13 THEN <<92, 114>>
    ELSE IF c < 32 THEN <<92, 117, 48, 48, Hex(c \div 16), Hex(c % 16)>>
    ELSE <<c>>

\* the same with the backslash left alone
EscapeQuotesOnly(s) ==
    Concat([i \in 1..Len(s) |-> IF s[i] = 92 THEN <<92>> ELSE EscapeChar(s[i])])

\* the text between the quotes of a JSON string
Escape(s) == Concat([i \in 1..Len(s) |-> EscapeChar(s[i])])

HexValue(b) ==
    IF b >= 48 /\ b <= 57 THEN b - 48
    ELSE IF b >= 97 /\ b <= 102 THEN b - 87
    ELSE IF b >= 65 /\ b <= 70 THEN b - 55
    ELSE 0 - 1

\* the value of the four hex digits at s[i..i+3], -1 when they are not hex
Hex4(s, i) ==
    IF Len(s) < i + 3 \/ (\E k \in 0..3 : HexValue(s[i + k]) < 0) THEN 0 - 1
    ELSE HexValue(s[i]) * 4096 + HexValue(s[i + 1]) * 256
         + HexValue(s[i + 2]) * 16 + HexValue(s[i + 3])

SimpleEscapes == {34, 92, 47, 98, 102, 110, 114, 116}

SimpleEscape(b) ==
    IF b = 98 THEN 8
    ELSE IF b = 102 THEN 12
    ELSE IF b = 110 THEN 10
    ELSE IF b = 114 THEN 13
    ELSE IF b = 116 THEN 9
    ELSE b

\* serde_json parse_str / parse_escape on the text between the quotes: a
\* bare quote ends the string before its end and a control character is
\* rejected; a scalar above U+FFFF may come as a surrogate pair
RECURSIVE parse_str(_)
parse_str(s) ==
    IF s = << >> THEN Ok(<< >>)
    ELSE IF s[1] = 34 \/ s[1] < 32 THEN Err("json")
    ELSE IF s[1] # 92
    THEN LET rest == parse_str(Tail(s))
         IN  IF rest.ok THEN Ok(<<s[1]>> \o rest.v) ELSE rest
    ELSE IF Len(s) < 2 THEN Err("json")
    ELSE IF s[2] \in SimpleEscapes
    THEN LET rest == parse_str(SubSeq(s, 3, Len(s)))
         IN  IF rest.ok THEN Ok(<<SimpleEscape(s[2])>> \o rest.v) ELSE rest
    ELSE IF s[2] # 117 \/ Hex4(s, 3) < 0 THEN Err("json")
    ELSE LET hi == Hex4(s, 3)
         IN  IF hi >= 56320 /\ hi < 57344 THEN Err("json")
             ELSE IF hi >= 55296 /\ hi < 56320
             THEN IF Len(s) < 12 \/ s[7] # 92 \/ s[8] # 117 \/ Hex4(s, 9) < 56320
                     \/ Hex4(s, 9) >= 57344
                  THEN Err("json")
                  ELSE LET rest == parse_str(SubSeq(s, 13, Len(s)))
                           c == 65536 + (hi - 55296) * 1024 + (Hex4(s, 9) - 56320)
                       IN  IF rest.ok THEN Ok(<<c>> \o rest.v) ELSE rest
             ELSE LET rest == parse_str(SubSeq(s, 7, Len(s)))
                  IN  IF rest.ok THEN Ok(<<hi>> \o rest.v) ELSE rest

(***************************************************************************)
(* Numbers. An i64 is written by itoa and an f64 by ryu, which prints the  *)
(* shortest decimal that reads back as the same f64 ("12.5", "3.0"). The   *)
(* f64 values of the model are finite decimals with one fractional digit,  *)
(* kept as their number of tenths; a value that is not finite is written   *)
(* as null.                                                                *)
(***************************************************************************)
Finite(tenths) == [cls |-> "finite", v |-> tenths]
NaN == [cls |-> "nan", v |-> 0]

RECURSIVE Digits(_)
Digits(n) == IF n < 10 THEN <<48 + n>> ELSE Digits(n \div 10) \o <<48 + (n % 10)>>

IsDigits(tok) == tok # << >> /\ \A i \in 1..Len(tok) : tok[i] >= 48 /\ tok[i] <= 57

RECURSIVE DigitsValue(_)
DigitsValue(tok) ==
    IF tok = << >> THEN 0
    ELSE 10 * DigitsValue(SubSeq(tok, 1, Len(tok) - 1)) + (tok[Len(tok)] - 48)

\* itoa
format_i64(n) == IF n < 0 THEN <<45>> \o Digits(0 - n) ELSE Digits(n)

\* ryu
format_f64(tenths) ==
    LET a == Abs(tenths)
        text == Digits(a \div 10) \o <<46>> \o Digits(a % 10)
    IN  IF tenths < 0 THEN <<45>> \o text ELSE text

Unsigned(tok) == IF tok # << >> /\ tok[1] = 45 THEN Tail(tok) ELSE tok
Signed(tok, n) == IF tok # << >> /\ tok[1] = 45 THEN 0 - n ELSE n
DotAt(tok) == IF \E i \in 1..Len(tok) : tok[i] = 46
              THEN CHOOSE i \in 1..Len(tok) : tok[i] = 46 /\ \A k \in 1..(i - 1) : tok[k] # 46
              ELSE 0

\* a number token read into an i64 field: a fraction is "invalid type"
parse_i64(tok) ==
    IF IsDigits(Unsigned(tok)) THEN Ok(Signed(tok, DigitsValue(Unsigned(tok))))
    ELSE Err("json")

\* a number token read into an f64 field: an integer converts
parse_f64(tok) ==
    LET u == Unsigned(tok)
        dot == DotAt(u)
    IN  CASE dot = 0 /\ IsDigits(u) -> Ok(Finite(Signed(tok, 10 * DigitsValue(u))))
          [] dot = 0 /\ ~IsDigits(u) -> Err("json")
          [] dot > 0 /\ ~(IsDigits(SubSeq(u, 1, dot - 1))
                          /\ IsDigits(SubSeq(u, dot + 1, Len(u)))) -> Err("json")
          [] dot > 0 /\ IsDigits(SubSeq(u, 1, dot - 1)) /\ Len(u) = dot + 1
                     /\ IsDigits(SubSeq(u, dot + 1, Len(u))) ->
                Ok(Finite(Signed(tok, 10 * DigitsValue(SubSeq(u, 1, dot - 1))
                                      + DigitsValue(SubSeq(u, dot + 1, Len(u))))))

(***************************************************************************)
(* JSON documents. A document is kept as the tree of its values: a string  *)
(* or a number carries its text, an object its members in written order.   *)
(* White space and punctuation are not kept. "cut" is a text that is not a *)
(* JSON document (an empty or truncated file).                             *)
(***************************************************************************)
JsonString(text) == [t |-> "str", v |-> text]
JsonNumber(text) == [t |-> "num", v |-> text]
JsonTrue == [t |-> "true", v |-> << >>]
JsonFalse == [t |-> "false", v |-> << >>]
JsonNull == [t |-> "null", v |-> << >>]
JsonArray(items) == [t |-> "arr", v |-> items]
JsonObject(members) == [t |-> "obj", v |-> members]
JsonCut == [t |-> "cut", v |-> << >>]

\* the bytes fs::write stores for a document text
RECURSIVE document_bytes(_)
document_bytes(j) ==
    IF j.t \in {"str", "num"} THEN [j EXCEPT !.v = as_bytes(j.v)]
    ELSE IF j.t = "arr"
    THEN [j EXCEPT !.v = [i \in 1..Len(j.v) |-> document_bytes(j.v[i])]]
    ELSE IF j.t = "obj"
    THEN [j EXCEPT !.v = [i \in 1..Len(j.v) |-> <<j.v[i][1], document_bytes(j.v[i][2])>>]]
    ELSE j

\* the String fs::read_to_string makes of a file's bytes
RECURSIVE document_text(_)
document_text(b) ==
    IF b.t \in {"str", "num"}
    THEN LET s == from_utf8(b.v)
         IN  IF s.ok THEN Ok([b EXCEPT !.v = s.v]) ELSE s
    ELSE IF b.t = "arr"
    THEN LET r == [i \in 1..Len(b.v) |-> document_text(b.v[i])]
         IN  IF \E i \in 1..Len(b.v) : ~r[i].ok THEN Err("io")
             ELSE Ok([b EXCEPT !.v = [i \in 1..Len(b.v) |-> r[i].v]])
    ELSE IF b.t = "obj"
    THEN LET r == [i \in 1..Len(b.v) |-> document_text(b.v[i][2])]
         IN  IF \E i \in 1..Len(b.v) : ~r[i].ok THEN Err("io")
             ELSE Ok([b EXCEPT !.v = [i \in 1..Len(b.v) |-> <<b.v[i][1], r[i].v>>]])
    ELSE Ok(b)

(***************************************************************************)
(* The persisted types, main.rs:515-564, as #[derive(Serialize,            *)
(* Deserialize)] sees them: the fields in declared order, each with its    *)
(* type and whether it carries #[serde(default)].                          *)
(***************************************************************************)
TyString == [k |-> "String", of |-> ""]
TyI64 == [k |-> "i64", of |-> ""]
TyF64 == [k |-> "f64", of |-> ""]
TyBool == [k |-> "bool", of |-> ""]
TyOption(T) == [k |-> "Option", of |-> T]
TyVec(T) == [k |-> "Vec", of |-> T]
TyStruct(name) == [k |-> "struct", of |-> name]

Field(name, ty, serde_default) == [name |-> name, ty |-> ty, serde_default |-> serde_default]

\* the same without #[serde(default)] on the fields added later
PerformanceSnapshotAllRequired ==
    << Field("timestamp", TyString, FALSE),
       Field("cpu_percent", TyF64, FALSE),
       Field("memory_mb", TyF64, FALSE),
       Field("memory_percent", TyF64, FALSE),
       Field("gpu_percent", TyF64, FALSE),
       Field("user_activity_percent", TyF64, FALSE),
       Field("is_foreground", TyBool, FALSE) >>

PerformanceSnapshot ==
    << Field("timestamp", TyString, FALSE),
       Field("cpu_percent", TyF64, FALSE),
       Field("memory_mb", TyF64, FALSE),
       Field("memory_percent", TyF64, FALSE),
       Field("gpu_percent", TyF64, TRUE),
       Field("user_activity_percent", TyF64, TRUE),
       Field("is_foreground", TyBool, TRUE) >>

SavedSession ==
    << Field("id", TyI64, FALSE),
       Field("app_name", TyString, FALSE),
       Field("start_time", TyString, FALSE),
       Field("end_time", TyOption(TyString), FALSE),
       Field("duration_seconds", TyI64, FALSE),
       Field("avg_cpu_percent", TyF64, FALSE),
       Field("avg_memory_mb", TyF64, FALSE),
       Field("avg_gpu_percent", TyF64, TRUE),
       Field("peak_cpu_percent", TyF64, FALSE),
       Field("peak_memory_mb", TyF64, FALSE),
       Field("peak_gpu_percent", TyF64, TRUE),
       Field("is_current", TyBool, FALSE),
       Field("performance_history", TyVec(TyStruct("PerformanceSnapshot")), TRUE) >>

SavedWhitelistEntry ==
    << Field("id", TyI64, FALSE),
       Field("name", TyString, FALSE),
       Field("exe_path", TyOption(TyString), FALSE),
       Field("added_date", TyString, FALSE),
       Field("is_tracked", TyBool, FALSE) >>

AppData ==
    << Field("whitelist", TyVec(TyStruct("SavedWhitelistEntry")), FALSE),
       Field("sessions", TyVec(TyStruct("SavedSession")), FALSE),
       Field("next_session_id", TyI64, FALSE) >>

Fields(name) ==
    CASE name = "PerformanceSnapshot" -> PerformanceSnapshot
      [] name = "SavedSession" -> SavedSession
      [] name = "SavedWhitelistEntry" -> SavedWhitelistEntry
      [] name = "AppData" -> AppData

FieldNames(name) == {Fields(name)[i].name : i \in 1..Len(Fields(name))}
FieldOf(name, n) == Fields(name)[CHOOSE i \in 1..Len(Fields(name)) : Fields(name)[i].name = n]

\* Default::default()
RECURSIVE Default(_)
Default(ty) ==
    CASE ty.k = "String" -> << >>
      [] ty.k = "i64" -> 0
      [] ty.k = "f64" -> Finite(0)
      [] ty.k = "bool" -> FALSE
      [] ty.k = "Option" -> None
      [] ty.k = "Vec" -> << >>
      [] ty.k = "struct" -> [n \in FieldNames(ty.of) |-> Default(FieldOf(ty.of, n).ty)]

\* Serialize::serialize into serde_json's serializer
RECURSIVE Serialize(_, _)
Serialize(ty, x) ==
    CASE ty.k = "String" -> JsonString(Escape(x))
      [] ty.k = "i64" -> JsonNumber(format_i64(x))
      [] ty.k = "f64" -> IF x.cls = "finite" THEN JsonNumber(format_f64(x.v)) ELSE JsonNull
      [] ty.k = "bool" -> IF x THEN JsonTrue ELSE JsonFalse
      [] ty.k = "Option" -> IF x = None THEN JsonNull ELSE Serialize(ty.of, x[1])
      [] ty.k = "Vec" -> JsonArray([i \in 1..Len(x) |-> Serialize(ty.of, x[i])])
      [] ty.k = "struct" ->
            LET fs == Fields(ty.of)
            IN  JsonObject([i \in 1..Len(fs) |->
                              <<fs[i].name, Serialize(fs[i].ty, x[fs[i].name])>>])

\* Deserialize::deserialize from serde_json's deserializer. A struct is read
\* from an object: a key that names no field is skipped, a field met twice
\* is an error, a field not met takes its default if it carries
\* #[serde(default)], None if it is an Option, and is an error otherwise.
\* (A struct written as an array is not among the documents of the model.)
RECURSIVE Deserialize(_, _)
Deserialize(ty, j) ==
    CASE ty.k = "String" -> IF j.t = "str" THEN parse_str(j.v) ELSE Err("json")
      [] ty.k = "i64" -> IF j.t = "num" THEN parse_i64(j.v) ELSE Err("json")
      [] ty.k = "f64" -> IF j.t = "num" THEN parse_f64(j.v) ELSE Err("json")
      [] ty.k = "bool" -> IF j.t = "true" THEN Ok(TRUE)
                          ELSE IF j.t = "false" THEN Ok(FALSE)
                          ELSE Err("json")
      [] ty.k = "Option" ->
            IF j.t = "null" THEN Ok(None)
            ELSE LET r == Deserialize(ty.of, j)
                 IN  IF r.ok THEN Ok(Some(r.v)) ELSE r
      [] ty.k = "Vec" ->
            IF j.t # "arr" THEN Err("json")
            ELSE LET r == [i \in 1..Len(j.v) |-> Deserialize(ty.of, j.v[i])]
                 IN  IF \E i \in 1..Len(j.v) : ~r[i].ok THEN Err("json")
                     ELSE Ok([i \in 1..Len(j.v) |-> r[i].v])
      [] ty.k = "struct" /\ j.t \notin {"obj", "arr"} -> Err("json")
      [] ty.k = "struct" /\ j.t = "obj" ->
            LET fs == Fields(ty.of)
                met(f) == SelectSeq(j.v, LAMBDA m : m[1] = f.name)
                read(f) ==
                    IF Len(met(f)) > 1 THEN Err("json")
                    ELSE IF Len(met(f)) = 1 THEN Deserialize(f.ty, met(f)[1][2])
                    ELSE IF f.serde_default THEN Ok(Default(f.ty))
                    ELSE IF f.ty.k = "Option" THEN Ok(None)
                    ELSE Err("json")
                r == [i \in 1..Len(fs) |-> read(fs[i])]
            IN  IF \E i \in 1..Len(fs) : ~r[i].ok THEN Err("json")
                ELSE Ok([n \in FieldNames(ty.of) |->
                           r[CHOOSE i \in 1..Len(fs) : fs[i].name = n].v])

\* serde_json::to_string_pretty(&data)
to_string_pretty(data) == Serialize(TyStruct("AppData"), data)

\* serde_json::from_str::<AppData>(&content)
from_str(content) == Deserialize(TyStruct("AppData"), content)

(***************************************************************************)
(* The data the external caller passes to save_app_data. The arguments     *)
(* reach the command through the IPC layer as JSON, which carries no NaN   *)
(* and no infinity, so every f64 of an argument is finite.                 *)
(***************************************************************************)
NonAsciiName == <<233, 26085, 128512>>      \* U+00E9, U+65E5, U+1F600
QuotedPath == <<67, 58, 92, 97, 34, 9>>     \* C:\a" and a tab
PlainText == <<50, 48, 50, 54>>             \* 2026

Snapshot1 ==
    [timestamp |-> PlainText, cpu_percent |-> Finite(125), memory_mb |-> Finite(10245),
     memory_percent |-> Finite(3), gpu_percent |-> Finite(0),
     user_activity_percent |-> Finite(1000), is_foreground |-> TRUE]

Snapshot2 ==
    [timestamp |-> << >>, cpu_percent |-> Finite(0), memory_mb |-> Finite(0 - 5),
     memory_percent |-> Finite(10), gpu_percent |-> Finite(995),
     user_activity_percent |-> Finite(0), is_foreground |-> FALSE]

Session1 ==
    [id |-> 1, app_name |-> NonAsciiName, start_time |-> PlainText, end_time |-> None,
     duration_seconds |-> 0, avg_cpu_percent |-> Finite(125), avg_memory_mb |-> Finite(2048),
     avg_gpu_percent |-> Finite(0), peak_cpu_percent |-> Finite(1000),
     peak_memory_mb |-> Finite(40960), peak_gpu_percent |-> Finite(7), is_current |-> TRUE,
     performance_history |-> << >>]

Session2 ==
    [id |-> 0 - 7, app_name |-> QuotedPath, start_time |-> << >>,
     end_time |-> Some(PlainText), duration_seconds |-> 3600,
     avg_cpu_percent |-> Finite(0), avg_memory_mb |-> Finite(1), avg_gpu_percent |-> Finite(12),
     peak_cpu_percent |-> Finite(0), peak_memory_mb |-> Finite(1),
     peak_gpu_percent |-> Finite(0), is_current |-> FALSE,
     performance_history |-> <<Snapshot1, Snapshot2>>]

Entry1 ==
    [id |-> 1, name |-> NonAsciiName, exe_path |-> Some(QuotedPath),
     added_date |-> PlainText, is_tracked |-> TRUE]

Entry2 ==
    [id |-> 20, name |-> << >>, exe_path |-> None, added_date |-> <<10>>,
     is_tracked |-> FALSE]

NewAppData(whitelist, sessions, next_session_id) ==
    [whitelist |-> whitelist, sessions |-> sessions, next_session_id |-> next_session_id]

Whitelists == << << >>, <<Entry1, Entry2>>, <<Entry2>>, <<Entry2, Entry1>> >>
SessionLists == << << >>, <<Session1>>, <<Session2>>, <<Session1, Session2>> >>
SessionIds == <<0, 2, 3, 0 - 1>>

\* what the caller saves: the whitelist, sessions and id counter of one moment
Moments == 1..4

(***************************************************************************)
(* The file system under state.data_path. dirs counts the directories of   *)
(* the path that exist, up to PathDepth; the data file can exist only when *)
(* all do. access is what the operating system lets this process do with   *)
(* the file: everything, all but reading it ("no_read"), or not even       *)
(* reading its metadata ("no_stat"). Whether a save can create the         *)
(* directories and write the file is the fault input of save_app_data.     *)
(***************************************************************************)
AccessModes == {"ok", "no_read", "no_stat"}
Faults == {"none", "mkdir", "create", "write"}

\* documents some other program leaves in the data file
MissingField ==
    JsonObject(<< <<"whitelist", JsonArray(<< >>)>>, <<"sessions", JsonArray(<< >>)>> >>)
NotUtf8 ==
    JsonObject(<< <<"whitelist", JsonArray(<< >>)>>, <<"sessions", JsonArray(<< >>)>>,
                  <<"next_session_id", JsonNumber(<<55>>)>>, <<"theme", JsonString(<<255>>)>> >>)
OtherOrder ==
    JsonObject(<< <<"theme", JsonString(<<92, 117, 48, 48, 101, 57>>)>>,
                  <<"next_session_id", JsonNumber(<<55>>)>>,
                  <<"sessions", JsonArray(<< >>)>>, <<"whitelist", JsonArray(<< >>)>> >>)

\* a document as a version wrote it that knew no GPU figures, no activity
\* figures and, for the first session, no performance history
Without(j, keys) == JsonObject(SelectSeq(j.v, LAMBDA m : m[1] \notin keys))

OldSnapshot(snapshot) ==
    Without(Serialize(TyStruct("PerformanceSnapshot"), snapshot),
            {"gpu_percent", "user_activity_percent", "is_foreground"})

OldSession(session) ==
    Without(Serialize(TyStruct("SavedSession"), session),
            {"avg_gpu_percent", "peak_gpu_percent", "performance_history"})

OldSessionWithHistory(session) ==
    JsonObject(OldSession(session).v \o
               << <<"performance_history",
                    JsonArray([i \in 1..Len(session.performance_history) |->
                                 OldSnapshot(session.performance_history[i])])>> >>)

OldVersion ==
    document_bytes(
        JsonObject(<< <<"whitelist", Serialize(TyVec(TyStruct("SavedWhitelistEntry")),
                                               <<Entry1, Entry2>>)>>,
                      <<"sessions", JsonArray(<<OldSession(Session1),
                                                OldSessionWithHistory(Session2)>>)>>,
                      <<"next_session_id", JsonNumber(format_i64(3))>> >>))

ForeignDocuments == <<JsonCut, MissingField, NotUtf8, OtherOrder, OldVersion>>

NoSave == [called |-> FALSE, result |-> Ok("unit"), fault |-> "none", dirs |-> 0]
NoLoad == [called |-> FALSE, defaulted |-> FALSE, result |-> Err("none")]

InitStore ==
    /\ disk = [dirs |-> 0, file |-> None, access |-> "ok"]
    /\ saved = [saves |-> 0, data |-> Default(TyStruct("AppData")),
                earlier |-> Default(TyStruct("AppData")), intact |-> FALSE]
    /\ saveResult = NoSave
    /\ loadResult = NoLoad

\* fs::create_dir: the one directory, whose parent must exist
create_dir(d, fault) ==
    IF fault = "mkdir" \/ d.dirs # PathDepth - 1 THEN Err("io")
    ELSE Ok([d EXCEPT !.dirs = PathDepth])

\* fs::create_dir_all(parent): every directory of the path that is missing
create_dir_all(d, fault) ==
    IF fault = "mkdir" /\ d.dirs < PathDepth THEN Err("io")
    ELSE Ok([d EXCEPT !.dirs = PathDepth])

\* the same opening the file to append
fs_write_append(d, contents, fault) ==
    IF d.dirs < PathDepth \/ fault = "create" THEN [ok |-> FALSE, disk |-> d]
    ELSE IF fault = "write" \/ d.file # None
    THEN [ok |-> fault # "write", disk |-> [d EXCEPT !.file = Some(JsonCut)]]
    ELSE [ok |-> TRUE, disk |-> [d EXCEPT !.file = Some(document_bytes(contents))]]

\* fs::write(path, contents): File::create makes or truncates the file and
\* write_all stores the bytes; a failure between the two leaves it cut
fs_write(d, contents, fault) ==
    IF d.dirs < PathDepth \/ fault = "create" THEN [ok |-> FALSE, disk |-> d]
    ELSE IF fault = "write" THEN [ok |-> FALSE, disk |-> [d EXCEPT !.file = Some(JsonCut)]]
    ELSE [ok |-> TRUE, disk |-> [d EXCEPT !.file = Some(document_bytes(contents))]]

\* Path::exists: fs::metadata(path).is_ok()
exists(d) == d.file # None /\ d.access # "no_stat"

\* fs::read_to_string
read_to_string(d) ==
    IF d.file = None \/ d.access # "ok" THEN Err("io") ELSE document_text(d.file[1])

\* save_app_data, main.rs:570-589
save_app_data(whitelist, sessions, next_session_id, fault) ==
    LET data == NewAppData(whitelist, sessions, next_session_id)
        parent == create_dir_all(disk, fault)
        json == to_string_pretty(data)
        written == fs_write(parent.v, json, fault)
        done == parent.ok /\ written.ok
    IN  /\ UNCHANGED notStoreVars
        /\ disk' = IF parent.ok THEN written.disk ELSE disk
        /\ saveResult' = [called |-> TRUE, result |-> IF done THEN Ok("unit") ELSE Err("io"),
                          fault |-> fault, dirs |-> disk.dirs]
        /\ saved' = IF done
                    THEN [saves |-> Min2(saved.saves + 1, 2), data |-> data,
                          earlier |-> saved.data, intact |-> TRUE]
                    ELSE [saved EXCEPT !.intact = saved.intact /\ fault # "write"]
        /\ loadResult' = NoLoad

\* load_app_data, main.rs:591-603
load_app_data ==
    /\ UNCHANGED notStoreVars
    /\ loadResult' =
          [called |-> TRUE,
           defaulted |-> ~exists(disk),
           result |-> IF ~exists(disk) THEN Ok(Default(TyStruct("AppData")))
                      ELSE LET content == read_to_string(disk)
                           IN  IF ~content.ok THEN content ELSE from_str(content.v)]
    /\ UNCHANGED <<disk, saved, saveResult>>

\* the directory at depth k and all below it are deleted
remove_dir_all(k) ==
    /\ UNCHANGED notStoreVars
    /\ k < disk.dirs
    /\ disk' = [disk EXCEPT !.dirs = k, !.file = None]
    /\ saved' = [saved EXCEPT !.intact = FALSE]
    /\ saveResult' = NoSave
    /\ loadResult' = NoLoad

\* another program writes the data file
foreign_write(doc) ==
    /\ UNCHANGED notStoreVars
    /\ disk.dirs = PathDepth
    /\ disk' = [disk EXCEPT !.file = Some(doc)]
    /\ saved' = [saved EXCEPT !.intact = FALSE]
    /\ saveResult' = NoSave
    /\ loadResult' = NoLoad

\* the permissions of the data file change
set_access(mode) ==
    /\ UNCHANGED notStoreVars
    /\ mode # disk.access
    /\ disk' = [disk EXCEPT !.access = mode]
    /\ saveResult' = NoSave
    /\ loadResult' = NoLoad
    /\ UNCHANGED saved

(***************************************************************************)
(* The process list, get_processes, main.rs:389-450. The command runs with *)
(* the System mutex held from its first statement to its return, so it is  *)
(* one step here. What the operating system reports at the refresh         *)
(* (snapshot), the order in which the HashMap of processes is iterated     *)
(* (order) and the number of CPUs sysinfo knows (cpus_len) are its inputs. *)
(* cpu_usage is the percent of one core; the values are such that the f32  *)
(* division by the core count is exact.                                    *)
(*                                                                         *)
(* Memory is counted in MiB. A process of the snapshot carries what the    *)
(* operating system reports for it: memory is sysinfo's process.memory(),  *)
(* the working set, and private_usage is what GetProcessMemoryInfo gives   *)
(* get_private_working_set, PROCESS_MEMORY_COUNTERS_EX.PrivateUsage, or    *)
(* None when the process cannot be opened or queried. PrivateUsage is the  *)
(* commit charge of the process: memory it has committed, resident or      *)
(* paged out, so it can be larger than the physical memory of the machine. *)
(***************************************************************************)
Pids == 1..MaxProcs

(***************************************************************************)
(* The GPU estimator, get_gpu_usage_per_process, main.rs:105-153. nvml is  *)
(* what the driver answers during one call: whether Nvml::init and         *)
(* device_by_index(0) succeed, and the Results of running_compute_         *)
(* processes, running_graphics_processes and utilization_rates. A percent  *)
(* is kept as the fraction the f32 division is applied to.                 *)
(***************************************************************************)
Fraction(num, den) == [num |-> num, den |-> den]
Zero == Fraction(0, 1)

\* the Vecs of process entries a driver call can return, by pid
PidLists2 == UNION {[1..n -> Pids] : n \in 0..MaxGpuProcs}
\* Err(NvmlError) of a list query and of the utilization query
NoList == [ok |-> FALSE, v |-> << >>]
NoRates == [ok |-> FALSE, v |-> 0]
ListResults == {NoList} \cup {Ok(l) : l \in PidLists2}
Utilizations == {NoRates, Ok(0), Ok(80)}

NvmlAnswers ==
    [init : BOOLEAN, device : BOOLEAN, compute : ListResults, graphics : ListResults,
     utilization : Utilizations]

NoNvml ==
    [init |-> FALSE, device |-> FALSE, compute |-> NoList, graphics |-> NoList,
     utilization |-> NoRates]

SharedGpu ==
    [init |-> TRUE, device |-> TRUE, compute |-> Ok(<<1>>), graphics |-> Ok(<<2, 1>>),
     utilization |-> Ok(80)]

\* for proc in processes { gpu_usage.insert(proc.pid, value); }
RECURSIVE insert_each(_, _, _)
insert_each(gpu_usage, list, value) ==
    IF list = << >> THEN gpu_usage
    ELSE insert_each((Head(list) :> value) @@ gpu_usage, Tail(list), value)

\* let per_process_util = if process_count > 0.0 { overall_util / process_count } else { 0.0 }
per_process_util(overall_util, process_count) ==
    IF process_count > 0 THEN Fraction(overall_util, process_count) ELSE Zero

\* the same with the compute processes entered after the graphics ones
get_gpu_usage_compute_last(nvml) ==
    IF ~nvml.init \/ ~nvml.device THEN << >>
    ELSE LET overall_util == IF nvml.utilization.ok THEN nvml.utilization.v ELSE 0
             after_graphics ==
                 IF nvml.graphics.ok
                 THEN insert_each(<< >>, nvml.graphics.v,
                                  per_process_util(overall_util, Len(nvml.graphics.v)))
                 ELSE << >>
         IN  IF nvml.compute.ok THEN insert_each(after_graphics, nvml.compute.v, Zero)
             ELSE after_graphics

get_gpu_usage_per_process(nvml) ==
    IF ~nvml.init \/ ~nvml.device THEN << >>
    ELSE LET after_compute ==
                 IF nvml.compute.ok THEN insert_each(<< >>, nvml.compute.v, Zero)
                 ELSE << >>
             overall_util == IF nvml.utilization.ok THEN nvml.utilization.v ELSE 0
         IN  IF nvml.graphics.ok
             THEN insert_each(after_compute, nvml.graphics.v,
                              per_process_util(overall_util, Len(nvml.graphics.v)))
             ELSE after_compute

InitGpu == gpu = [called |-> FALSE, nvml |-> NoNvml, gpu_usage |-> << >>]

\* the driver in any of its states
InitGpuAny == \E nvml \in NvmlAnswers : gpu = [called |-> FALSE, nvml |-> nvml, gpu_usage |-> << >>]

\* one call of get_gpu_usage_per_process, as get_processes and
\* get_process_by_pid make it
estimate_gpu_usage ==
    /\ UNCHANGED notGpuVars
    /\ gpu' = [called |-> TRUE, nvml |-> gpu.nvml,
               gpu_usage |-> get_gpu_usage_per_process(gpu.nvml)]

CoreCounts == {0, 4}
GiB == 1024
PhysicalMemory == 16 * GiB
TotalMemories == {0, PhysicalMemory}

ProcessReadings ==
    { [cpu_usage |-> 0, memory |-> 4 * GiB, private_usage |-> None],
      [cpu_usage |-> 100, memory |-> 4 * GiB, private_usage |-> Some(2 * GiB)],
      [cpu_usage |-> 400, memory |-> 8 * GiB, private_usage |-> Some(32 * GiB)] }

CpuUsages == {r.cpu_usage : r \in ProcessReadings}

\* what sysinfo and the GPU driver know of the machine: nothing, or four
\* cores, 16 GiB and a GPU that two processes draw on
Machines ==
    {m \in [cpus_len : CoreCounts, total_memory : TotalMemories, nvml : {NoNvml, SharedGpu}] :
        /\ (m.cpus_len = 0) <=> (m.total_memory = 0)
        /\ (m.cpus_len = 0) <=> (m.nvml = NoNvml)}

\* the sequences that list every element of S once
Orders(S) ==
    {o \in [1..Cardinality(S) -> S] : \A i, j \in 1..Cardinality(S) : o[i] = o[j] => i = j}

InitProc ==
    /\ table = << >>
    /\ processes = [returned |-> FALSE, list |-> << >>, cpu_cores |-> 0, total_memory |-> 0]

\* no normalization: every core count divides by 1
cpu_divisor_one(cpu_cores) == 1

\* let cpu_divisor = if cpu_cores > 0.0 { cpu_cores } else { 1.0 }
cpu_divisor(cpu_cores) == IF cpu_cores > 0 THEN cpu_cores ELSE 1

\* get_private_working_set(pid), main.rs:70-96
get_private_working_set(process) == process.private_usage

\* get_private_working_set(pid_u32).unwrap_or_else(|| process.memory())
memory_bytes(process) ==
    IF get_private_working_set(process) = None THEN process.memory
    ELSE get_private_working_set(process)[1]

\* (memory_bytes as f64 / total_memory as f64 * 100.0) as f32, or 0.0; the
\* values are such that the quotient is exact
memory_percent(bytes, total_memory) ==
    IF total_memory > 0 THEN (bytes * 100) \div total_memory ELSE 0

\* gpu_usage.get(&pid_u32).copied().unwrap_or(0.0)
gpu_percent(gpu_usage, pid) == IF pid \in DOMAIN gpu_usage THEN gpu_usage[pid] ELSE Zero

ProcessInfo(pid, process, divisor, total_memory, gpu_usage) ==
    [pid |-> pid,
     cpu_percent |-> process.cpu_usage \div divisor,
     memory_mb |-> memory_bytes(process),
     memory_percent |-> memory_percent(memory_bytes(process), total_memory),
     gpu_percent |-> gpu_percent(gpu_usage, pid)]

\* a.cpu_percent.partial_cmp(&b.cpu_percent): ascending
compare_ascending(a, b) ==
    IF a.cpu_percent < b.cpu_percent THEN "Less"
    ELSE IF a.cpu_percent > b.cpu_percent THEN "Greater"
    ELSE "Equal"

\* |a, b| b.cpu_percent.partial_cmp(&a.cpu_percent).unwrap_or(Equal); the
\* values are finite, so partial_cmp is never None
compare(a, b) ==
    IF b.cpu_percent < a.cpu_percent THEN "Less"
    ELSE IF b.cpu_percent > a.cpu_percent THEN "Greater"
    ELSE "Equal"

\* e goes before the first element it is Less than
RECURSIVE Insert(_, _)
Insert(sorted, e) ==
    IF sorted = << >> THEN <<e>>
    ELSE IF compare(e, Head(sorted)) = "Less" THEN <<e>> \o sorted
    ELSE <<Head(sorted)>> \o Insert(Tail(sorted), e)

\* slice::sort_by: a stable sort
RECURSIVE sort_by(_)
sort_by(list) ==
    IF list = << >> THEN << >>
    ELSE Insert(sort_by(SubSeq(list, 1, Len(list) - 1)), list[Len(list)])

get_processes(snapshot, order, cpus_len, total_memory, nvml) ==
    LET divisor == cpu_divisor(cpus_len)
        gpu_usage == get_gpu_usage_per_process(nvml)
        collected == [i \in 1..Len(order) |->
                        ProcessInfo(order[i], snapshot[order[i]], divisor, total_memory,
                                    gpu_usage)]
    IN  /\ UNCHANGED notProcVars
        /\ table' = snapshot
        /\ processes' = [returned |-> TRUE, list |-> sort_by(collected),
                         cpu_cores |-> cpus_len, total_memory |-> total_memory]

(***************************************************************************)
(* The activity tracker: the capture thread against the polling threads.   *)
(***************************************************************************)
Init == InitActivity /\ InitLock /\ InitStore /\ InitProc /\ InitGpu

HookStep ==
    \/ \E code \in HookCodes, msg \in KeyMessages : keyboard_hook_proc(code, msg)
    \/ \E code \in HookCodes, msg \in MouseMessages, pt \in Points :
            mouse_hook_proc_swap_x(code, msg, pt)
    \/ mouse_hook_proc_swap_y
    \/ mouse_hook_proc_add

DrainStep(pollers) ==
    \/ \E p \in pollers : calculate_global_activity_clicks(p)
    \/ \E p \in pollers : calculate_global_activity_distance(p)

QueryStep ==
    \/ \E pids \in PidLists, fg \in ForegroundAnswers : check_foreground(pids, fg)
    \/ \E pids \in PidLists, fg \in ForegroundAnswers : get_user_activity(pids, fg)

Next == HookStep \/ DrainStep(Pollers)

Spec == Init /\ [][Next]_vars

(***************************************************************************)
(* The score as a function of the counters: the counters start at any of   *)
(* the values below (the hooks can bring them to any u32) and the polling  *)
(* threads drain them.                                                     *)
(***************************************************************************)
ScoreKeys == (0..13) \cup {100}
ScoreDists == {0, 1, 16, 400, 799, 800, 801, 1600, 10000}

InitScore ==
    /\ KEYBOARD_HOOK_CLICKS \in {U32(k) : k \in ScoreKeys} \cup {<<Limb - 1, Limb - 1>>}
    /\ MOUSE_DISTANCE \in {U32(d) : d \in ScoreDists} \cup {<<Limb - 1, Limb - 1>>}
    /\ PREV_CURSOR_X = 1
    /\ PREV_CURSOR_Y = 1
    /\ hook = [pc |-> "idle", x |-> 0, y |-> 0, prev_x |-> 0, prev_y |-> 0, dist |-> 0]
    /\ poll = [p \in Pollers |-> [pc |-> "idle", clicks |-> U32Zero,
                                  armed |-> FALSE, clean |-> FALSE]]
    /\ activity = [p \in Pollers |-> NoActivity]
    /\ fgResult = NoFgResult
    /\ hist = [addedKeys |-> KEYBOARD_HOOK_CLICKS, addedDist |-> MOUSE_DISTANCE,
               drainedKeys |-> U32Zero, drainedDist |-> U32Zero,
               wrapped |-> FALSE, events |-> 0, drains |-> 0, queries |-> 0,
               quiet |-> FALSE, position |-> <<PREV_CURSOR_X, PREV_CURSOR_Y>>,
               from |-> <<PREV_CURSOR_X, PREV_CURSOR_Y>>, sinceMove |-> "none",
               spans |-> FALSE]
    /\ InitLock
    /\ InitStore
    /\ InitProc
    /\ InitGpu

NextScore == DrainStep(Pollers)

SpecScore == InitScore /\ [][NextScore]_vars

(***************************************************************************)
(* The foreground queries beside the capture thread and one polling thread.*)
(***************************************************************************)
\* the queries read no cursor position: two positions next to each other
\* are enough to make the distance counter move
NearPoints == {<<0, 0>>, <<1, 1>>}

HookStepNear ==
    \/ \E code \in HookCodes, msg \in KeyMessages : keyboard_hook_proc(code, msg)
    \/ \E code \in HookCodes, msg \in MouseMessages, pt \in NearPoints :
            mouse_hook_proc_swap_x(code, msg, pt)
    \/ mouse_hook_proc_swap_y
    \/ mouse_hook_proc_add

NextQuery == HookStepNear \/ DrainStep({"p1"}) \/ QueryStep

SpecQuery == Init /\ [][NextQuery]_vars

(***************************************************************************)
(* The mouse hook on screen positions beside one polling thread.           *)
(***************************************************************************)
NextMouse ==
    \/ \E pt \in ScreenPoints : mouse_hook_proc_swap_x(0, WM_MOUSEMOVE, pt)
    \/ mouse_hook_proc_swap_y
    \/ mouse_hook_proc_add
    \/ calculate_global_activity_clicks("p1")
    \/ calculate_global_activity_distance("p1")

SpecMouse == Init /\ [][NextMouse]_vars

(***************************************************************************)
(* The collection commands called from several threads. A thread that has  *)
(* a step to take inside a command takes it (weak fairness): the scheduler *)
(* runs every runnable thread, and Mutex::lock returns once the mutex is   *)
(* free. The caller is free to invoke or not.                              *)
(***************************************************************************)
NextLock ==
    \/ \E t \in Threads, cmd \in Commands : invoke(t, cmd)
    \/ \E t \in Threads : CommandStep(t)

SpecLock ==
    /\ Init
    /\ [][NextLock]_vars
    /\ \A t \in Threads : WF_vars(CommandStep(t))

(***************************************************************************)
(* The store: the caller saves and loads, the file system fails now and    *)
(* then, and the user or another program changes what is on disk.          *)
(***************************************************************************)
NextStore ==
    \/ \E m \in Moments, fault \in Faults :
            save_app_data(Whitelists[m], SessionLists[m], SessionIds[m], fault)
    \/ load_app_data
    \/ \E k \in 0..(PathDepth - 1) : remove_dir_all(k)
    \/ \E i \in 1..Len(ForeignDocuments) : foreign_write(ForeignDocuments[i])
    \/ \E mode \in AccessModes : set_access(mode)

SpecStore == Init /\ [][NextStore]_vars

(***************************************************************************)
(* The process list: the caller polls get_processes while processes come   *)
(* and go.                                                                 *)
(***************************************************************************)
NextProc ==
    \E S \in SUBSET Pids : \E snapshot \in [S -> ProcessReadings] :
        \E order \in Orders(S), machine \in Machines :
            get_processes(snapshot, order, machine.cpus_len, machine.total_memory,
                          machine.nvml)

SpecProc == Init /\ [][NextProc]_vars

(***************************************************************************)
(* The GPU estimator against every answer of the driver.                   *)
(***************************************************************************)
NextGpu == estimate_gpu_usage

InitDriver == InitActivity /\ InitLock /\ InitStore /\ InitProc /\ InitGpuAny

SpecGpu == InitDriver /\ [][NextGpu]_vars

(***************************************************************************)
(* Properties.                                                             *)
(***************************************************************************)
U32Ge(u, n) == u[1] > 0 \/ u[2] >= n

RECURSIVE InFlightKeys(_)
InFlightKeys(S) ==
    IF S = {} THEN U32Zero
    ELSE LET p == CHOOSE q \in S : TRUE
         IN  WideAdd(IF poll[p].pc = "clicks_swapped" THEN poll[p].clicks ELSE U32Zero,
                     InFlightKeys(S \ {p}))

\* C1: no input is lost or counted twice. For each counter, what the drains have
\* returned, plus what a drain in progress has swapped out and not yet returned,
\* plus what is still in the counter, is what the hooks have added, as long as no
\* fetch_add has wrapped the u32.
C1_NoInputLostOrDoubled ==
    ~hist.wrapped =>
        /\ WideAdd(WideAdd(hist.drainedKeys, InFlightKeys(Pollers)), KEYBOARD_HOOK_CLICKS)
              = hist.addedKeys
        /\ WideAdd(hist.drainedDist, MOUSE_DISTANCE) = hist.addedDist

\* both threads have returned a drain, one of them with keystrokes and distance, the
\* counter holds distance again, and no add has wrapped
C1_Witness ==
    /\ ~hist.wrapped
    /\ activity["p1"].returned /\ activity["p2"].returned
    /\ activity["p1"].keyboard_clicks # U32Zero
    /\ activity["p2"].mouse_pixels # U32Zero
    /\ MOUSE_DISTANCE # U32Zero

\* an add that wraps the counter loses 2^32: the proviso of C1 is needed
WrapLosesInput ==
    /\ hist.wrapped
    /\ WideAdd(hist.drainedDist, MOUSE_DISTANCE) # hist.addedDist

\* C2: a call of calculate_global_activity that begins after another call has
\* returned, with no key-down or mouse-move event handled from the start of that
\* first call to the return of this one, returns activity_percent = 0,
\* keyboard_clicks = 0 and mouse_pixels = 0.
C2_SecondDrainIsZero ==
    \A p \in Pollers :
        (activity[p].returned /\ activity[p].after_quiet) =>
            /\ activity[p].activity_percent = 0
            /\ activity[p].keyboard_clicks = U32Zero
            /\ activity[p].mouse_pixels = U32Zero

\* p1 drained keystrokes and distance, then p2 drained with no event in between
C2_Witness ==
    /\ activity["p1"].returned
    /\ activity["p1"].keyboard_clicks # U32Zero
    /\ activity["p1"].mouse_pixels # U32Zero
    /\ activity["p1"].activity_percent > 0
    /\ activity["p2"].returned
    /\ activity["p2"].after_quiet

\* the formula of the specification, in 1/48 percent:
\* min(min(k / 12 * 100, 100) + min(d / 800 * 50, 50), 100)
KeyPart(k) == IF U32Ge(k, 12) THEN 4800 ELSE 400 * k[2]
MousePart(d) == IF U32Ge(d, 800) THEN 2400 ELSE 3 * d[2]
Percent48(k, d) ==
    IF KeyPart(k) + MousePart(d) >= 4800 THEN 4800 ELSE KeyPart(k) + MousePart(d)

\* C3: for every drained keystroke count k and distance d the returned
\* activity_percent is min(min(k/12*100, 100) + min(d/800*50, 50), 100), lies in
\* [0, 100], and is 100 for (12, 0), 50 for (0, 800), 75 for (6, 400) and 100 for
\* (100, 10000).
C3_ScoreFormula ==
    \A p \in Pollers :
        activity[p].returned =>
            LET k == activity[p].keyboard_clicks
                d == activity[p].mouse_pixels
                a == activity[p].activity_percent
            IN  /\ a = Percent48(k, d)
                /\ 0 <= a /\ a <= 100 * 48
                /\ (k = U32(12) /\ d = U32(0)) => a = 100 * 48
                /\ (k = U32(0) /\ d = U32(800)) => a = 50 * 48
                /\ (k = U32(6) /\ d = U32(400)) => a = 75 * 48
                /\ (k = U32(100) /\ d = U32(10000)) => a = 100 * 48

\* a drain returned 6 keystrokes and 400 pixels, scored 75
C3_Witness ==
    \E p \in Pollers :
        /\ activity[p].returned
        /\ activity[p].keyboard_clicks = U32(6)
        /\ activity[p].mouse_pixels = U32(400)
        /\ activity[p].activity_percent = 75 * 48

InCriticalSection(t) == thr[t].pc \in {"refresh", "collect"}

\* C5: at most one command is between acquiring and releasing the System mutex, the
\* thread inside is the holder, each call acquires the mutex exactly once, and every
\* started call returns.
C5_SerializedNoDeadlock ==
    /\ [](\A t, u \in Threads : (InCriticalSection(t) /\ InCriticalSection(u)) => t = u)
    /\ [](\A t \in Threads : InCriticalSection(t) <=> system.holder = t)
    /\ [](\A t \in Threads : thr[t].locks = (IF thr[t].pc = "lock" \/ thr[t].cmd = "none"
                                              THEN 0 ELSE 1))
    /\ \A t \in Threads : (thr[t].pc # "idle") ~> (thr[t].pc = "idle")

\* the three commands at once: one refreshing under the guard, two blocked in lock(),
\* after an earlier call has returned
C5_Witness ==
    /\ thr["t1"].cmd = "get_processes" /\ thr["t1"].pc = "refresh"
    /\ thr["t2"].cmd = "get_system_stats" /\ thr["t2"].pc = "lock"
    /\ thr["t3"].cmd = "get_process_by_pid" /\ thr["t3"].pc = "lock"
    /\ thr["t3"].calls = 2
    /\ system.refreshes >= 2

(***************************************************************************)
(* The store.                                                              *)
(***************************************************************************)
\* a load made right after a successful save, with the file readable
LoadedAfterSave ==
    /\ saveResult.called
    /\ saveResult.result.ok
    /\ loadResult.called
    /\ disk.access = "ok"

NonAscii(text) == \E i \in 1..Len(text) : text[i] >= 128

Parsed ==
    LET content == document_text(disk.file[1])
    IN  IF content.ok THEN from_str(content.v) ELSE content

\* C7: load_app_data takes the defaults exactly when the data file does not
\* exist; when the file exists but cannot be read or parsed it returns an
\* error; and a load leaves the file as it is.
C7_DefaultsExactlyWhenMissing ==
    loadResult.called =>
        /\ loadResult.defaulted <=> (disk.file = None)
        /\ loadResult.defaulted =>
               /\ loadResult.result.ok
               /\ loadResult.result.v = Default(TyStruct("AppData"))
        /\ (disk.file # None /\ disk.access # "ok") => ~loadResult.result.ok
        /\ (disk.file # None /\ disk.access = "ok" /\ ~Parsed.ok) => ~loadResult.result.ok

\* the same where the metadata of the file can be read
LoadWithMetadata ==
    (loadResult.called /\ disk.access # "no_stat") => C7_DefaultsExactlyWhenMissing

LoadLeavesFile == [][loadResult'.called => UNCHANGED disk]_vars

\* the entries of a list that another list does not hold
Dropped(earlier, latest) ==
    {i \in 1..Len(earlier) : \A k \in 1..Len(latest) : latest[k] # earlier[i]}

Holds(list, e) == \E k \in 1..Len(list) : list[k] = e

\* C8: the file a successful save leaves is the document of that save's
\* arguments alone, whatever the file held before; after two or more
\* successful saves a load returns the arguments of the latest, and no
\* entry that only the earlier save held.
C8_SaveIsFullReplace ==
    /\ saved.intact =>
           /\ disk.file # None
           /\ disk.file[1] = document_bytes(to_string_pretty(saved.data))
    /\ (LoadedAfterSave /\ saved.saves >= 2) =>
           /\ loadResult.result.ok
           /\ loadResult.result.v = saved.data
           /\ \A i \in Dropped(saved.earlier.whitelist, saved.data.whitelist) :
                  ~Holds(loadResult.result.v.whitelist, saved.earlier.whitelist[i])
           /\ \A i \in Dropped(saved.earlier.sessions, saved.data.sessions) :
                  ~Holds(loadResult.result.v.sessions, saved.earlier.sessions[i])

\* the earlier save held a whitelist entry and a session the latest dropped
C8_Witness ==
    /\ LoadedAfterSave
    /\ saved.saves >= 2
    /\ loadResult.result.ok
    /\ Dropped(saved.earlier.whitelist, saved.data.whitelist) # {}
    /\ Dropped(saved.earlier.sessions, saved.data.sessions) # {}
    /\ saved.data.whitelist # << >>

\* C9: a save that no file system fault hits succeeds whatever directories
\* are missing, leaves every directory of the path and the file in place,
\* and a load of the readable file then succeeds from the file.
C9_SaveCreatesDirectories ==
    /\ (saveResult.called /\ saveResult.fault = "none") =>
           /\ saveResult.result.ok
           /\ disk.dirs = PathDepth
           /\ disk.file # None
    /\ (saveResult.called /\ saveResult.fault = "none" /\ saveResult.dirs < PathDepth
           /\ loadResult.called /\ disk.access = "ok") =>
           /\ loadResult.result.ok
           /\ ~loadResult.defaulted

\* a save found the whole path deleted after an earlier save, and the load
\* after it succeeded
C9_Witness ==
    /\ saveResult.called
    /\ saveResult.fault = "none"
    /\ saveResult.dirs = 0
    /\ saved.saves >= 2
    /\ disk.dirs = PathDepth
    /\ loadResult.called
    /\ loadResult.result.ok
    /\ ~loadResult.defaulted

(***************************************************************************)
(* The process list.                                                       *)
(***************************************************************************)
\* C10: the list get_processes returns is in descending order of
\* cpu_percent and holds one sample for each process of the refreshed
\* table, and no other.
C10_SortedOnePerProcess ==
    processes.returned =>
        /\ \A i, j \in 1..Len(processes.list) :
               i < j => processes.list[i].cpu_percent >= processes.list[j].cpu_percent
        /\ Len(processes.list) = Cardinality(DOMAIN table)
        /\ {processes.list[i].pid : i \in 1..Len(processes.list)} = DOMAIN table

\* three processes, two of them level, listed out of pid order
C10_Witness ==
    /\ processes.returned
    /\ Len(processes.list) = 3
    /\ processes.list[1].cpu_percent > processes.list[2].cpu_percent
    /\ processes.list[2].cpu_percent = processes.list[3].cpu_percent
    /\ processes.list[1].pid > processes.list[2].pid
    /\ processes.list[2].pid > processes.list[3].pid

\* the process of the refreshed table that a sample of the list is about
Raw(sample) == table[sample.pid]

\* C11: every sample of the list get_processes returns is the raw per-core
\* usage divided by the core count, or by 1 when the core count is 0, and
\* lies in [0,100] whenever the raw usage lies in [0, 100 * core count].
C11_CpuPercentNormalized ==
    processes.returned =>
        \A i \in 1..Len(processes.list) :
            LET sample == processes.list[i]
                cores == processes.cpu_cores
                divisor == IF cores = 0 THEN 1 ELSE cores
            IN  /\ sample.cpu_percent * divisor = Raw(sample).cpu_usage
                /\ (Raw(sample).cpu_usage >= 0 /\ Raw(sample).cpu_usage <= 100 * cores) =>
                       (sample.cpu_percent >= 0 /\ sample.cpu_percent <= 100)

\* a process that keeps all four cores busy is listed at 100, next to an
\* idle one
C11_Witness ==
    /\ processes.returned
    /\ processes.cpu_cores = 4
    /\ \E i, j \in 1..Len(processes.list) :
           /\ Raw(processes.list[i]).cpu_usage = 400
           /\ processes.list[i].cpu_percent = 100
           /\ Raw(processes.list[j]).cpu_usage = 0
           /\ processes.list[j].cpu_percent = 0

\* with the core count reported as 0 the raw usage is returned as it is
ZeroCoresDividesByOne ==
    /\ processes.returned
    /\ processes.cpu_cores = 0
    /\ \E i \in 1..Len(processes.list) : processes.list[i].cpu_percent = 100

\* C12: the memory_percent of every process sample lies in [0,100] when the
\* total memory reported is above 0 and is 0 when the total is reported as
\* 0, whether the private working set query or process.memory() supplied
\* the bytes.
C12_MemoryPercentInRange ==
    processes.returned =>
        \A i \in 1..Len(processes.list) :
            /\ processes.total_memory > 0 =>
                   /\ processes.list[i].memory_percent >= 0
                   /\ processes.list[i].memory_percent <= 100
            /\ processes.total_memory = 0 => processes.list[i].memory_percent = 0

\* the same for the samples whose bytes are no more than the total
MemoryPercentOfResident ==
    processes.returned =>
        \A i \in 1..Len(processes.list) :
            /\ (processes.total_memory > 0
                   /\ memory_bytes(Raw(processes.list[i])) <= processes.total_memory) =>
                   /\ processes.list[i].memory_percent >= 0
                   /\ processes.list[i].memory_percent <= 100
            /\ processes.total_memory = 0 => processes.list[i].memory_percent = 0

\* samples from both sources were returned, and samples with no total
BothMemorySources ==
    /\ processes.returned
    /\ \E i, j \in 1..Len(processes.list) :
           /\ Raw(processes.list[i]).private_usage = None
           /\ Raw(processes.list[j]).private_usage # None
           /\ processes.list[i].memory_percent = 25
           /\ processes.list[j].memory_percent = 200

(***************************************************************************)
(* The GPU estimator.                                                      *)
(***************************************************************************)
Listed(result) == IF result.ok THEN {result.v[i] : i \in 1..Len(result.v)} ELSE {}

\* the lists the driver gave and the aggregate utilization the code read
Graphics == Listed(gpu.nvml.graphics)
Compute == Listed(gpu.nvml.compute)
GraphicsCount == IF gpu.nvml.graphics.ok THEN Len(gpu.nvml.graphics.v) ELSE 0
Aggregate == IF gpu.nvml.utilization.ok THEN gpu.nvml.utilization.v ELSE 0

\* C13: with the driver available, the mapping holds exactly the pids of the
\* graphics and compute lists; a pid of the graphics list has the aggregate
\* utilization divided by the length of the graphics list, also when it is
\* in the compute list; a pid of the compute list alone has 0; with no
\* graphics process every entry is 0 and nothing is divided.
C13_GpuShares ==
    (gpu.called /\ gpu.nvml.init /\ gpu.nvml.device) =>
        /\ DOMAIN gpu.gpu_usage = Graphics \cup Compute
        /\ \A pid \in Graphics :
               /\ gpu.gpu_usage[pid].den = GraphicsCount
               /\ gpu.gpu_usage[pid].num = Aggregate
        /\ \A pid \in Compute \ Graphics : gpu.gpu_usage[pid] = Zero
        /\ GraphicsCount = 0 => \A pid \in DOMAIN gpu.gpu_usage : gpu.gpu_usage[pid] = Zero

\* a pid in both lists shares 80 percent with another graphics process
C13_Witness ==
    /\ gpu.called
    /\ gpu.nvml.init /\ gpu.nvml.device
    /\ Aggregate = 80
    /\ GraphicsCount = 2
    /\ \E pid \in Graphics \cap Compute : gpu.gpu_usage[pid] = Fraction(80, 2)
    /\ Cardinality(Graphics) = 2

\* no graphics process, 80 percent aggregate utilization, compute entries at 0
NoPhantomUtilization ==
    /\ gpu.called
    /\ gpu.nvml.init /\ gpu.nvml.device /\ gpu.nvml.graphics.ok
    /\ GraphicsCount = 0
    /\ gpu.nvml.utilization = Ok(80)
    /\ Compute # {}
    /\ \A pid \in Compute : gpu.gpu_usage[pid] = Zero

\* without the driver the mapping is empty
NoDriverNoEntries ==
    (gpu.called /\ ~(gpu.nvml.init /\ gpu.nvml.device)) => gpu.gpu_usage = << >>

(***************************************************************************)
(* Documents of an older version.                                          *)
(***************************************************************************)
\* what the old document must load as
UpgradedSnapshot(snapshot) ==
    [snapshot EXCEPT !.gpu_percent = Finite(0), !.user_activity_percent = Finite(0),
                     !.is_foreground = FALSE]

UpgradedSession1 ==
    [Session1 EXCEPT !.avg_gpu_percent = Finite(0), !.peak_gpu_percent = Finite(0),
                     !.performance_history = << >>]

UpgradedSession2 ==
    [Session2 EXCEPT !.avg_gpu_percent = Finite(0), !.peak_gpu_percent = Finite(0),
                     !.performance_history = <<UpgradedSnapshot(Snapshot1),
                                               UpgradedSnapshot(Snapshot2)>>]

OldVersionOnDisk == disk.file # None /\ disk.file[1] = OldVersion

\* C14: a document whose snapshots lack gpu_percent, user_activity_percent
\* and is_foreground and whose sessions lack avg_gpu_percent,
\* peak_gpu_percent and, one of them, performance_history loads with
\* success: the missing fields are 0, false and the empty sequence, and
\* every field the document holds has its stored value.
C14_OldDocumentsLoadWithDefaults ==
    (loadResult.called /\ OldVersionOnDisk /\ disk.access = "ok") =>
        /\ loadResult.result.ok
        /\ ~loadResult.defaulted
        /\ loadResult.result.v.whitelist = <<Entry1, Entry2>>
        /\ loadResult.result.v.next_session_id = 3
        /\ Len(loadResult.result.v.sessions) = 2
        /\ loadResult.result.v.sessions[1] = UpgradedSession1
        /\ loadResult.result.v.sessions[2] = UpgradedSession2

\* the old document was loaded: a session took an empty history, a snapshot
\* took is_foreground = false and kept its cpu_percent
C14_Witness ==
    /\ loadResult.called
    /\ OldVersionOnDisk
    /\ loadResult.result.ok
    /\ loadResult.result.v.sessions[1].performance_history = << >>
    /\ loadResult.result.v.sessions[1].peak_gpu_percent # Session1.peak_gpu_percent
    /\ loadResult.result.v.sessions[2].performance_history[1].is_foreground = FALSE
    /\ loadResult.result.v.sessions[2].performance_history[1].cpu_percent = Finite(125)

(***************************************************************************)
(* The mouse hook's reference position.                                    *)
(***************************************************************************)
\* floor(sqrt(dx^2 + dy^2)), in exact arithmetic
Euclid(dx, dy) == ISqrt(dx * dx + dy * dy, Abs(dx) + Abs(dy))

\* the step that completes PREV_CURSOR_Y.swap and computes the distance
SwapYStep == hook.pc = "swap_y" /\ hook'.pc # "swap_y"

\* the MOUSE_DISTANCE.fetch_add step
AddStep == hook.pc = "add" /\ hook'.pc # "add"

NoReference == hook.prev_x = 0 /\ PREV_CURSOR_Y = 0

Records ==
    /\ PREV_CURSOR_X = hook.x
    /\ PREV_CURSOR_Y' = hook.y
    /\ hook'.pc = (IF hook'.dist > 0 THEN "add" ELSE "idle")
    /\ MOUSE_DISTANCE' = MOUSE_DISTANCE

Adds == MOUSE_DISTANCE' = WrappingAdd(MOUSE_DISTANCE, U32(hook.dist))

\* C15 as stated: a move handled while the previous coordinates are both
\* zero records its position and adds nothing, and every other move adds
\* the integer-truncated Euclidean distance from the previous position
C15_AddsTruncatedEuclidean ==
    [][/\ SwapYStep =>
            /\ Records
            /\ hook'.dist = (IF NoReference THEN 0
                             ELSE Euclid(hook.x - hook.prev_x, hook.y - PREV_CURSOR_Y))
       /\ AddStep => Adds]_vars

\* C15: a mouse move handled while the previous coordinates are both zero
\* records its position and adds nothing; every other move records its
\* position and adds (dx * dx + dy * dy).sqrt() as the code computes it in
\* f32, truncated, which is the integer-truncated Euclidean distance
\* whenever dx * dx + dy * dy is below 2^24 and is at most one above it on
\* the positions of a screen.
C15_AddsComputedDistance ==
    [][/\ SwapYStep =>
            LET dx == hook.x - hook.prev_x
                dy == hook.y - PREV_CURSOR_Y
            IN  /\ Records
                /\ hook'.dist = (IF NoReference THEN 0 ELSE Dist(dx, dy))
                /\ (dx * dx + dy * dy < Pow2(24) /\ ~NoReference) => hook'.dist = Euclid(dx, dy)
                /\ ~NoReference => hook'.dist - Euclid(dx, dy) \in {0, 1}
       /\ AddStep => Adds]_vars

\* four moves: (3,4) at startup adds nothing, (103,5004) adds 5001, (0,0)
\* adds 5005, and (3,4) after the move to (0,0) adds nothing again
C15_Witness ==
    /\ hook.pc = "idle"
    /\ hist.events = 4
    /\ hist.from = <<0, 0>>
    /\ <<hook.prev_x, hook.prev_y>> = <<0, 0>>
    /\ <<PREV_CURSOR_X, PREV_CURSOR_Y>> = <<3, 4>>
    /\ hook.dist = 0
    /\ hist.addedDist = U32(5001 + 5005)

\* a move of (100, 5000), of length 5000.99..., was counted as 5001
RoundedUp ==
    ~(/\ hook.pc = "idle"
      /\ hook.x - hook.prev_x = 100
      /\ hook.y - hook.prev_y = 5000
      /\ hook.dist = 5001
      /\ Euclid(100, 5000) = 5000)

\* calculate_global_activity writes neither PREV_CURSOR_X nor PREV_CURSOR_Y
DrainLeavesPosition ==
    [][(poll # poll' /\ hook = hook') =>
            UNCHANGED <<PREV_CURSOR_X, PREV_CURSOR_Y>>]_vars

\* the move after a drain reads the position recorded before the drain
SpanningMoveReadsRecorded ==
    (hook.pc # "swap_y" /\ hist.spans) => <<hook.prev_x, hook.prev_y>> = hist.from

\* and adds its displacement from it unless that position is (0,0)
SpanningMoveOffOrigin ==
    (hook.pc # "swap_y" /\ hist.spans /\ hist.from # <<0, 0>>) =>
        hook.dist = Dist(hook.x - hist.from[1], hook.y - hist.from[2])

SpanningMoveCounted ==
    ~(hook.pc = "idle" /\ hist.spans /\ hist.from = <<3, 4>> /\ hook.dist = 5
      /\ MOUSE_DISTANCE = U32(5) /\ activity["p1"].returned)

====
